---- MODULE Spec2Model ----
(***************************************************************************)
(* Model of the Prettier-SQL formatting engine (Formatter): the token      *)
(* driven primary pass, the newline heuristic and the two line based       *)
(* post-format passes.  Text is a sequence of one-character strings.       *)
(***************************************************************************)
EXTENDS Integers, Sequences, FiniteSets, TLC

\* ------------------------------------------------------------------ bounds
MaxLen == 2

\* -------------------------------------------------------------- characters
SP == " "
NL == "\n"
TAB == "\t"
ZWS == "<ZWS>"
Backtick == "<backtick>"
Undefined == <<"<undefined>">>

LowerLetters == <<"a","b","c","d","e","f","g","h","i","j","k","l","m",
                  "n","o","p","q","r","s","t","u","v","w","x","y","z">>
UpperLetters == <<"A","B","C","D","E","F","G","H","I","J","K","L","M",
                  "N","O","P","Q","R","S","T","U","V","W","X","Y","Z">>

IsLower(c) == \E i \in 1..26 : LowerLetters[i] = c
IsUpper(c) == \E i \in 1..26 : UpperLetters[i] = c

toUpperCaseChar(c) ==
  IF IsLower(c) THEN UpperLetters[CHOOSE i \in 1..26 : LowerLetters[i] = c] ELSE c
toLowerCaseChar(c) ==
  IF IsUpper(c) THEN LowerLetters[CHOOSE i \in 1..26 : UpperLetters[i] = c] ELSE c

toUpperCase(s) == [i \in 1..Len(s) |-> toUpperCaseChar(s[i])]
toLowerCase(s) == [i \in 1..Len(s) |-> toLowerCaseChar(s[i])]

\* \s of a JavaScript regular expression (U+200B is not white space)
IsWhitespace(c) == c \in {SP, TAB, NL}
\* `spaces` of token.ts: [​\s]
IsTokenSpace(c) == c \in {SP, TAB, NL, ZWS}

RECURSIVE repeat(_, _)
repeat(s, n) == IF n <= 0 THEN <<>> ELSE s \o repeat(s, n - 1)

RECURSIVE trimSpacesEnd(_)
trimSpacesEnd(s) ==
  IF Len(s) > 0 /\ s[Len(s)] \in {SP, TAB}
  THEN trimSpacesEnd(SubSeq(s, 1, Len(s) - 1)) ELSE s

RECURSIVE trimEnd(_)
trimEnd(s) ==
  IF Len(s) > 0 /\ IsWhitespace(s[Len(s)])
  THEN trimEnd(SubSeq(s, 1, Len(s) - 1)) ELSE s

RECURSIVE stripLeadingNewlines(_)
stripLeadingNewlines(s) ==
  IF Len(s) > 0 /\ s[1] = NL THEN stripLeadingNewlines(Tail(s)) ELSE s

RECURSIVE stripTokenSpaces(_)
stripTokenSpaces(s) ==
  IF Len(s) > 0 /\ IsTokenSpace(s[1]) THEN stripTokenSpaces(Tail(s))
  ELSE IF Len(s) > 0 /\ IsTokenSpace(s[Len(s)])
       THEN stripTokenSpaces(SubSeq(s, 1, Len(s) - 1))
       ELSE s

\* string.replace(/\s+/gu, ' ')
RECURSIVE equalizeWhitespace(_)
equalizeWhitespace(s) ==
  IF Len(s) = 0 THEN <<>>
  ELSE IF IsWhitespace(s[1])
       THEN IF Len(s) > 1 /\ IsWhitespace(s[2])
            THEN equalizeWhitespace(Tail(s))
            ELSE <<SP>> \o equalizeWhitespace(Tail(s))
       ELSE <<s[1]>> \o equalizeWhitespace(Tail(s))

\* formattedQuery.replace(new RegExp(ZWS, 'ugim'), ' ')
replaceZWS(s) == [i \in 1..Len(s) |-> IF s[i] = ZWS THEN SP ELSE s[i]]

\* ------------------------------------------------------------- token model
WORD == "WORD"
STRING_TOKEN == "STRING"
RESERVED_KEYWORD == "RESERVED_KEYWORD"
RESERVED_LOGICAL_OPERATOR == "RESERVED_LOGICAL_OPERATOR"
RESERVED_DEPENDENT_CLAUSE == "RESERVED_DEPENDENT_CLAUSE"
RESERVED_BINARY_COMMAND == "RESERVED_BINARY_COMMAND"
RESERVED_COMMAND == "RESERVED_COMMAND"
OPERATOR == "OPERATOR"
BLOCK_START == "BLOCK_START"
BLOCK_END == "BLOCK_END"
LINE_COMMENT == "LINE_COMMENT"
BLOCK_COMMENT == "BLOCK_COMMENT"
NUMBER == "NUMBER"
PLACEHOLDER == "PLACEHOLDER"

TokenTypes ==
  { WORD, STRING_TOKEN, RESERVED_KEYWORD, RESERVED_LOGICAL_OPERATOR,
    RESERVED_DEPENDENT_CLAUSE, RESERVED_BINARY_COMMAND, RESERVED_COMMAND, OPERATOR,
    BLOCK_START, BLOCK_END, LINE_COMMENT, BLOCK_COMMENT, NUMBER, PLACEHOLDER }

Token(v, t, w) == [value |-> v, type |-> t, whitespaceBefore |-> w]

\* `undefined` token (a lookahead or lookbehind outside the sequence) and
\* the `{}` the constructor stores in previousReservedToken
NoToken == [value |-> Undefined, type |-> "undefined", whitespaceBefore |-> <<>>]

testToken(v, t, token) ==
  token.type = t /\ stripTokenSpaces(toUpperCase(token.value)) = v

isAS(token) == testToken(<<"A","S">>, RESERVED_KEYWORD, token)
isAND(token) == testToken(<<"A","N","D">>, RESERVED_LOGICAL_OPERATOR, token)
isBETWEEN(token) == testToken(<<"B","E","T","W","E","E","N">>, RESERVED_KEYWORD, token)
isCASE(token) == testToken(<<"C","A","S","E">>, BLOCK_START, token)
isEND(token) == testToken(<<"E","N","D">>, BLOCK_END, token)
isFROM(token) == testToken(<<"F","R","O","M">>, RESERVED_COMMAND, token)
isLIMIT(token) == testToken(<<"L","I","M","I","T">>, RESERVED_COMMAND, token)
isSELECT(token) == testToken(<<"S","E","L","E","C","T">>, RESERVED_COMMAND, token)

isCommand(token) ==
  token.type \in {RESERVED_COMMAND, RESERVED_BINARY_COMMAND}

isReserved(token) ==
  token.type \in {RESERVED_KEYWORD, RESERVED_LOGICAL_OPERATOR,
                  RESERVED_DEPENDENT_CLAUSE, RESERVED_COMMAND,
                  RESERVED_BINARY_COMMAND}

\* ----------------------------------------------------------- configuration
always == "always"
never == "never"
lineWidthMode == "lineWidth"
\* a numeric newline option: the mode, the number in cfg.newlineItems
itemCount == "itemCount"
standard == "standard"
tenSpaceLeft == "tenSpaceLeft"
tenSpaceRight == "tenSpaceRight"
after == "after"
before == "before"
tabular == "tabular"
aliasNever == "never"
aliasSelect == "select"
aliasAlways == "always"

DefaultLineWidth == 50

\* defaultOptions of sqlFormatter.format
\* cfg.params: none given, or a mapping of one name to its value
NoParams == [given |-> FALSE, key |-> <<>>, value |-> <<>>]
NamedParams == [given |-> TRUE, key |-> <<"n">>, value |-> <<"7">>]

DefaultCfg ==
  [ indent |-> <<SP, SP>>,
    uppercase |-> TRUE,
    keywordPosition |-> standard,
    newline |-> always,
    newlineItems |-> 0,
    breakBeforeBooleanOperator |-> TRUE,
    aliasAs |-> aliasSelect,
    tabulateAlias |-> FALSE,
    commaPosition |-> after,
    openParenNewline |-> TRUE,
    closeParenNewline |-> TRUE,
    lineWidth |-> DefaultLineWidth,
    linesBetweenQueries |-> 1,
    denseOperators |-> FALSE,
    semicolonNewline |-> FALSE,
    params |-> NoParams ]

\* this.cfg.tenSpace of the constructor
tenSpace(cfg) == cfg.keywordPosition \in {tenSpaceLeft, tenSpaceRight}

\* ------------------------------------------------------- Indentation tracker
\* two counters, decreases saturating at zero; ten-space mode uses a fixed
\* ten character alignment block as the unit
indentUnit(cfg) == IF tenSpace(cfg) THEN repeat(<<SP>>, 10) ELSE cfg.indent

increaseTopLevel(f) == [f EXCEPT !.top = @ + 1]
increaseBlockLevel(f) == [f EXCEPT !.block = @ + 1]
decreaseTopLevel(f) == [f EXCEPT !.top = IF @ > 0 THEN @ - 1 ELSE 0]
decreaseBlockLevelUnchecked(f) == [f EXCEPT !.block = @ - 1]
decreaseBlockLevel(f) == [f EXCEPT !.block = IF @ > 0 THEN @ - 1 ELSE 0]
resetIndentation(f) == [f EXCEPT !.top = 0, !.block = 0]
getIndent(f, cfg) == repeat(indentUnit(cfg), f.top + f.block)

\* ----------------------------------------------------------- token cursor
tokenAt(tokens, i) ==
  IF i >= 0 /\ i < Len(tokens) THEN tokens[i + 1] ELSE NoToken

tokenLookBehind(f, n) == tokenAt(f.tokens, f.index - n)
tokenLookAhead(f, n) == tokenAt(f.tokens, f.index + n)

\* ---------------------------------------------------- Inline-block detector
NoInline == [startIndex |-> -1, endIndex |-> -1]

isActive(f) == f.inline.startIndex >= 0

\* index of the BLOCK_END matching the BLOCK_START at `start`, -1 when the
\* sequence ends first
RECURSIVE matchingBlockEnd(_, _, _)
matchingBlockEnd(tokens, i, level) ==
  IF i >= Len(tokens) THEN -1
  ELSE LET t == tokens[i + 1]
           l == IF t.type = BLOCK_START THEN level + 1
                ELSE IF t.type = BLOCK_END THEN level - 1 ELSE level
       IN  IF l = 0 THEN i ELSE matchingBlockEnd(tokens, i + 1, l)

RECURSIVE sumValueLengths(_, _, _)
sumValueLengths(tokens, from, to) ==
  IF from > to THEN 0
  ELSE Len(tokens[from + 1].value) + sumValueLengths(tokens, from + 1, to)

isForbiddenToken(token) ==
  token.type \in {RESERVED_COMMAND, RESERVED_BINARY_COMMAND, LINE_COMMENT}

isInlineBlock(tokens, index, cfg) ==
  LET e == matchingBlockEnd(tokens, index, 0)
  IN  /\ e >= 0
      /\ \A i \in index..e : ~isForbiddenToken(tokens[i + 1])
      /\ sumValueLengths(tokens, index, e) <= cfg.lineWidth

beginIfPossible(f, cfg) ==
  IF ~isActive(f) /\ isInlineBlock(f.tokens, f.index, cfg)
  THEN [f EXCEPT !.inline = [startIndex |-> f.index,
                             endIndex |-> matchingBlockEnd(f.tokens, f.index, 0)]]
  ELSE f

inlineEndAtAnyBlockEnd(f) == [f EXCEPT !.inline = NoInline]

\* cleared when the matching BLOCK_END is emitted
inlineEnd(f) ==
  IF f.index = f.inline.endIndex THEN [f EXCEPT !.inline = NoInline] ELSE f

\* ------------------------------------------------------ placeholder resolver
\* the name or number after the marker of a placeholder, empty for a bare `?`
placeholderKey(token) ==
  IF Len(token.value) > 1 THEN Tail(token.value) ELSE <<>>

\* what string concatenation makes of a value that is not there
undefinedText == <<"u","n","d","e","f","i","n","e","d">>

\* with no table the placeholder text itself; with a table the value under
\* the placeholder's name, and no value when the table has none (a bare `?`
\* reads the positional list, which a mapping of names does not have)
paramsGet(token, cfg) ==
  IF ~cfg.params.given THEN token.value
  ELSE IF placeholderKey(token) # <<>> /\ placeholderKey(token) = cfg.params.key
  THEN cfg.params.value
  ELSE undefinedText

\* ------------------------------------------------------------ text emission
showUppercasesAll(token, cfg) ==
  IF cfg.uppercase THEN toUpperCase(token.value) ELSE toLowerCase(token.value)

show(token, cfg) ==
  IF isReserved(token) \/ token.type = BLOCK_START \/ token.type = BLOCK_END
  THEN IF cfg.uppercase THEN toUpperCase(token.value) ELSE toLowerCase(token.value)
  ELSE token.value

addNewline(query, f, cfg) ==
  LET q == trimSpacesEnd(query)
  IN  (IF Len(q) > 0 /\ q[Len(q)] = NL THEN q ELSE q \o <<NL>>) \o getIndent(f, cfg)

formatWithoutSpaces(token, query, cfg) == trimSpacesEnd(query) \o show(token, cfg)

formatWithSpaces(token, query, preserve, cfg) ==
  (IF preserve = "after" THEN trimSpacesEnd(query) ELSE query)
    \o show(token, cfg)
    \o (IF preserve = "before" THEN <<>> ELSE <<SP>>)

\* ------------------------------------------------------- keyword alignment
addBuffer(string, bufferLength) ==
  repeat(<<ZWS>>, IF bufferLength - Len(string) > 0 THEN bufferLength - Len(string) ELSE 0)

firstSpace(s) ==
  IF \E i \in 1..Len(s) : s[i] = SP
  THEN CHOOSE i \in 1..Len(s) : s[i] = SP /\ \A j \in 1..(i - 1) : s[j] # SP
  ELSE 0

\* the value tenSpacedToken writes into the token
tenSpacedToken(token, cfg) ==
  IF tenSpace(cfg)
  THEN LET v == token.value
           split == Len(v) >= 10 /\ firstSpace(v) > 0
           bufferItem == IF split THEN SubSeq(v, 1, firstSpace(v) - 1) ELSE v
           tail == IF split THEN SubSeq(v, firstSpace(v), Len(v)) ELSE <<>>
           padded == IF cfg.keywordPosition = tenSpaceLeft
                     THEN bufferItem \o addBuffer(bufferItem, 9)
                     ELSE addBuffer(bufferItem, 9) \o bufferItem
       IN  [token EXCEPT !.value = padded \o tail]
  ELSE token

\* --------------------------------------------------------- newline heuristic
isClauseEnd(token) ==
  \/ token.type = RESERVED_COMMAND
  \/ token.type = RESERVED_BINARY_COMMAND
  \/ token.value = <<";">>

\* tail.findIndex(...), -1 when no token of the tail ends the clause
findIndex(tail) ==
  IF \E i \in 1..Len(tail) : isClauseEnd(tail[i])
  THEN (CHOOSE i \in 1..Len(tail) :
          isClauseEnd(tail[i]) /\ \A j \in 1..(i - 1) : ~isClauseEnd(tail[j])) - 1
  ELSE -1

\* tail.slice(0, end) of JavaScript, a negative end counting from the back
slice0(tail, end) ==
  LET e == IF end < 0 THEN Len(tail) + end ELSE end
      n == IF e < 0 THEN 0 ELSE IF e > Len(tail) THEN Len(tail) ELSE e
  IN  SubSeq(tail, 1, n)

nextTokens(tokens, index) ==
  LET tail == SubSeq(tokens, index + 2, Len(tokens))
  IN  IF Len(tail) > 0 THEN slice0(tail, findIndex(tail)) ELSE tail

RECURSIVE countItems(_, _, _)
countItems(span, count, inParen) ==
  IF Len(span) = 0 THEN count
  ELSE LET t == Head(span)
       IN  IF t.value = <<",">> /\ ~inParen
           THEN countItems(Tail(span), count + 1, inParen)
           ELSE IF t.type = BLOCK_START THEN countItems(Tail(span), count, TRUE)
           ELSE IF t.type = BLOCK_END THEN countItems(Tail(span), count, FALSE)
           ELSE countItems(Tail(span), count, inParen)

RECURSIVE joinedLength(_)
joinedLength(span) ==
  IF Len(span) = 0 THEN 0
  ELSE (IF Head(span).value = <<",">> THEN 2 ELSE Len(Head(span).value))
         + joinedLength(Tail(span))

inlineWidth(tokens, index) ==
  Len(tokens[index + 1].whitespaceBefore) + Len(tokens[index + 1].value) + 1
    + joinedLength(nextTokens(tokens, index))

hasCaseBlock(span) ==
  \E i \in 1..Len(span) : span[i].type = BLOCK_START /\ Len(span[i].value) > 1

checkNewlineInverted(f, cfg) ==
  LET span == nextTokens(f.tokens, f.index)
  IN  IF cfg.newline = always \/ (f.withinSelect /\ hasCaseBlock(span)) THEN TRUE
      ELSE IF cfg.newline = never THEN TRUE
      ELSE IF cfg.newline = lineWidthMode
           THEN inlineWidth(f.tokens, f.index) > cfg.lineWidth
           ELSE \/ countItems(span, 1, FALSE) > cfg.newlineItems
                \/ inlineWidth(f.tokens, f.index) > cfg.lineWidth

checkNewline(f, cfg) ==
  LET span == nextTokens(f.tokens, f.index)
  IN  IF cfg.newline = always \/ (f.withinSelect /\ hasCaseBlock(span)) THEN TRUE
      ELSE IF cfg.newline = never THEN FALSE
      ELSE IF cfg.newline = lineWidthMode
           THEN inlineWidth(f.tokens, f.index) > cfg.lineWidth
           ELSE \/ countItems(span, 1, FALSE) > cfg.newlineItems
                \/ inlineWidth(f.tokens, f.index) > cfg.lineWidth

\* ------------------------------------------------------- per-kind handlers
formatLineComment(token, f, cfg) ==
  [f EXCEPT !.query = addNewline(f.query \o show(token, cfg), f, cfg)]

\* comment.replace(/\n[ \t]*/gu, '\n' + indent + ' ')
RECURSIVE indentComment(_, _)
indentComment(comment, indent) ==
  IF Len(comment) = 0 THEN <<>>
  ELSE IF comment[1] = NL
       THEN LET RECURSIVE skip(_)
                skip(s) == IF Len(s) > 0 /\ s[1] \in {SP, TAB} THEN skip(Tail(s)) ELSE s
            IN  <<NL>> \o indent \o <<SP>> \o indentComment(skip(Tail(comment)), indent)
       ELSE <<comment[1]>> \o indentComment(Tail(comment), indent)

formatBlockComment(token, f, cfg) ==
  [f EXCEPT !.query =
     addNewline(addNewline(f.query, f, cfg)
                  \o indentComment(token.value, getIndent(f, cfg)), f, cfg)]

formatCommandAlwaysIncreases(token, f, cfg) ==
  LET f1 == decreaseTopLevel(f)
      q1 == addNewline(f.query, f1, cfg)
      f2 == increaseTopLevel(f1)
      q2 == q1 \o equalizeWhitespace(show(token, cfg))
  IN  [f2 EXCEPT !.query = IF f.currentNewline /\ ~tenSpace(cfg)
                           THEN addNewline(q2, f2, cfg) ELSE q2 \o <<SP>>]

formatCommand(token, f, cfg) ==
  LET f1 == decreaseTopLevel(f)
      q1 == addNewline(f.query, f1, cfg)
      f2 == IF tenSpace(cfg)
            THEN IF tokenLookAhead(f, 1).value # <<"(">> THEN increaseTopLevel(f1) ELSE f1
            ELSE IF ~(tokenLookAhead(f, 1).value = <<"(">> /\ isFROM(token))
                 THEN increaseTopLevel(f1) ELSE f1
      q2 == q1 \o equalizeWhitespace(show(token, cfg))
  IN  [f2 EXCEPT !.query = IF f.currentNewline /\ ~tenSpace(cfg)
                           THEN addNewline(q2, f2, cfg) ELSE q2 \o <<SP>>]

\* /JOIN/i.test(token.value)
isJoin(value) ==
  LET u == toUpperCase(value)
  IN  \E i \in 1..(Len(u) - 3) : SubSeq(u, i, i + 3) = <<"J","O","I","N">>

formatBinaryCommand(token, f, cfg) ==
  LET f1 == IF ~isJoin(token.value) \/ tenSpace(cfg) THEN decreaseTopLevel(f) ELSE f
      q1 == addNewline(f.query, f1, cfg) \o equalizeWhitespace(show(token, cfg))
  IN  [f1 EXCEPT !.query = IF isJoin(token.value) THEN q1 \o <<SP>>
                           ELSE addNewline(q1, f1, cfg)]

formatKeywordSkipsAll(token, f, cfg) == f

formatKeyword(token, f, cfg) ==
  IF /\ isAS(token)
     /\ \/ cfg.aliasAs = aliasNever
        \/ /\ cfg.aliasAs = aliasSelect
           /\ tokenLookBehind(f, 1).value = <<")">>
           /\ ~f.withinSelect
           /\ tokenLookAhead(f, 1).value # <<"(">>
  THEN f
  ELSE [f EXCEPT !.query = formatWithSpaces(token, f.query, "both", cfg)]

formatDependentClause(token, f, cfg) ==
  [f EXCEPT !.query =
     addNewline(f.query, f, cfg) \o equalizeWhitespace(show(token, cfg)) \o <<SP>>]

formatLogicalOperatorNoBetween(token, f, cfg) ==
  LET f1 == IF tenSpace(cfg) THEN decreaseTopLevel(f) ELSE f
  IN  IF cfg.breakBeforeBooleanOperator
      THEN [f1 EXCEPT !.query =
              (IF f.currentNewline THEN addNewline(f.query, f1, cfg) ELSE f.query)
                \o equalizeWhitespace(show(token, cfg)) \o <<SP>>]
      ELSE LET q == f.query \o show(token, cfg)
           IN  [f1 EXCEPT !.query =
                  IF f.currentNewline THEN addNewline(q, f1, cfg) ELSE q]

formatLogicalOperator(token, f, cfg) ==
  IF isAND(token) /\ isBETWEEN(tokenLookBehind(f, 2))
  THEN [f EXCEPT !.query = formatWithSpaces(token, f.query, "both", cfg)]
  ELSE LET f1 == IF tenSpace(cfg) THEN decreaseTopLevel(f) ELSE f
       IN  IF cfg.breakBeforeBooleanOperator
           THEN [f1 EXCEPT !.query =
                   (IF f.currentNewline THEN addNewline(f.query, f1, cfg) ELSE f.query)
                     \o equalizeWhitespace(show(token, cfg)) \o <<SP>>]
           ELSE LET q == f.query \o show(token, cfg)
                IN  [f1 EXCEPT !.query =
                       IF f.currentNewline THEN addNewline(q, f1, cfg) ELSE q]

formatBlockStartAlwaysIncreases(token, f, cfg) ==
  LET g == IF isCASE(token)
           THEN [f EXCEPT !.query = formatWithSpaces(token, f.query, "both", cfg)]
           ELSE LET q == IF /\ Len(token.whitespaceBefore) = 0
                            /\ tokenLookBehind(f, 1).type
                                 \notin {BLOCK_START, LINE_COMMENT, OPERATOR}
                         THEN trimSpacesEnd(f.query)
                         ELSE IF ~cfg.openParenNewline
                              THEN trimEnd(f.query) \o <<SP>>
                              ELSE f.query
                IN  beginIfPossible([f EXCEPT !.query = q \o show(token, cfg)], cfg)
      h == increaseBlockLevel(g)
  IN  IF ~isActive(g) /\ (~isCASE(token) \/ cfg.newline = always)
      THEN [h EXCEPT !.query = addNewline(h.query, h, cfg)]
      ELSE h

formatBlockStart(token, f, cfg) ==
  LET g == IF isCASE(token)
           THEN [f EXCEPT !.query = formatWithSpaces(token, f.query, "both", cfg)]
           ELSE LET q == IF /\ Len(token.whitespaceBefore) = 0
                            /\ tokenLookBehind(f, 1).type
                                 \notin {BLOCK_START, LINE_COMMENT, OPERATOR}
                         THEN trimSpacesEnd(f.query)
                         ELSE IF ~cfg.openParenNewline
                              THEN trimEnd(f.query) \o <<SP>>
                              ELSE f.query
                IN  beginIfPossible([f EXCEPT !.query = q \o show(token, cfg)], cfg)
  IN  IF ~isActive(g)
      THEN LET h == increaseBlockLevel(g)
           IN  IF ~isCASE(token) \/ cfg.newline = always
               THEN [h EXCEPT !.query = addNewline(h.query, h, cfg)]
               ELSE h
      ELSE g

formatBlockEnd(token, f, cfg) ==
  IF isActive(f)
  THEN [inlineEnd(f) EXCEPT !.query = formatWithSpaces(token, f.query, "after", cfg)]
  ELSE LET f1 == decreaseBlockLevel(f)
           q == IF tenSpace(cfg) THEN addNewline(f.query, f1, cfg) \o indentUnit(cfg)
                ELSE IF cfg.closeParenNewline THEN addNewline(f.query, f1, cfg)
                ELSE trimEnd(f.query) \o <<SP>>
       IN  [f1 EXCEPT !.query = formatWithSpaces(token, q, "both", cfg)]

formatPlaceholder(token, f, cfg) ==
  [f EXCEPT !.query = f.query \o paramsGet(token, cfg) \o <<SP>>]

formatCommaInline(token, f, cfg) ==
  [f EXCEPT !.query = trimSpacesEnd(f.query) \o show(token, cfg) \o <<SP>>]

formatComma(token, f, cfg) ==
  LET q == trimSpacesEnd(f.query) \o show(token, cfg) \o <<SP>>
  IN  [f EXCEPT !.query =
         IF isActive(f) THEN q
         ELSE IF isLIMIT(f.previousReservedToken) THEN q
         ELSE IF f.currentNewline THEN addNewline(q, f, cfg)
         ELSE q]

formatQuerySeparatorNoReset(token, f, cfg) ==
  LET q == trimSpacesEnd(f.query)
             \o (IF cfg.semicolonNewline
                 THEN <<NL>> \o (IF tenSpace(cfg) THEN indentUnit(cfg) ELSE <<>>)
                 ELSE <<>>)
      lines == IF cfg.linesBetweenQueries = 0 THEN 1 ELSE cfg.linesBetweenQueries
  IN  [f EXCEPT !.query = q \o show(token, cfg) \o repeat(<<NL>>, lines + 1)]

formatQuerySeparator(token, f, cfg) ==
  LET f1 == resetIndentation(f)
      q == trimSpacesEnd(f.query)
             \o (IF cfg.semicolonNewline
                 THEN <<NL>> \o (IF tenSpace(cfg) THEN indentUnit(cfg) ELSE <<>>)
                 ELSE <<>>)
      lines == IF cfg.linesBetweenQueries = 0 THEN 1 ELSE cfg.linesBetweenQueries
  IN  [f1 EXCEPT !.query = q \o show(token, cfg) \o repeat(<<NL>>, lines + 1)]

formatOperator(token, f, cfg) ==
  IF token.value = <<",">> THEN formatComma(token, f, cfg)
  ELSE IF token.value = <<";">> THEN formatQuerySeparator(token, f, cfg)
  ELSE IF token.value \in {<<"$">>, <<"[">>}
       THEN [f EXCEPT !.query = formatWithSpaces(token, f.query, "before", cfg)]
  ELSE IF token.value \in {<<":">>, <<"]">>}
       THEN [f EXCEPT !.query = formatWithSpaces(token, f.query, "after", cfg)]
  ELSE IF token.value \in {<<".">>, <<"{">>, <<"}">>, <<Backtick>>}
       THEN [f EXCEPT !.query = formatWithoutSpaces(token, f.query, cfg)]
  ELSE IF cfg.denseOperators /\ tokenLookBehind(f, 1).type # RESERVED_COMMAND
       THEN [f EXCEPT !.query = formatWithoutSpaces(token, f.query, cfg)]
  ELSE [f EXCEPT !.query = formatWithSpaces(token, f.query, "both", cfg)]

formatAliases(token, f, cfg) ==
  LET prevToken == tokenLookBehind(f, 1)
      nextToken == tokenLookAhead(f, 1)
      asToken == [type |-> RESERVED_KEYWORD,
                  value |-> IF cfg.uppercase THEN <<"A","S">> ELSE <<"a","s">>,
                  whitespaceBefore |-> <<>>]
      missingTableAlias ==
        cfg.aliasAs = aliasAlways /\ token.type = WORD /\ prevToken.value = <<")">>
      missingSelectColumnAlias ==
        /\ f.withinSelect
        /\ token.type = WORD
        /\ \/ isEND(prevToken)
           \/ /\ prevToken.type = WORD
              /\ (nextToken.value = <<",">> \/ isCommand(nextToken))
  IN  IF missingTableAlias \/ missingSelectColumnAlias
      THEN [f EXCEPT !.query = formatWithSpaces(asToken, f.query, "both", cfg)]
      ELSE f

formatWord(token, f, cfg) ==
  LET g == IF cfg.aliasAs # aliasNever THEN formatAliases(token, f, cfg) ELSE f
  IN  [g EXCEPT !.query = formatWithSpaces(token, g.query, "both", cfg)]

\* ------------------------------------------------ one turn of the main loop
\* the token as the loop body sees it after the reserved-token prologue
overriddenToken(f, cfg) ==
  LET token == tokenAt(f.tokens, f.index)
  IN  IF isReserved(token) /\ token.type # RESERVED_KEYWORD
      THEN tenSpacedToken(token, cfg) ELSE token

\* previousReservedToken, the padded token value and withinSelect
prologue(f, cfg) ==
  LET token == overriddenToken(f, cfg)
  IN  IF isReserved(token)
      THEN [f EXCEPT !.previousReservedToken = token,
                     !.tokens[f.index + 1] = token,
                     !.withinSelect = IF token.type = RESERVED_COMMAND
                                      THEN isSELECT(token) ELSE @]
      ELSE f

formatToken(f, cfg) ==
  LET token == overriddenToken(f, cfg)
      g == prologue(f, cfg)
  IN  IF token.type = LINE_COMMENT THEN formatLineComment(token, g, cfg)
      ELSE IF token.type = BLOCK_COMMENT THEN formatBlockComment(token, g, cfg)
      ELSE IF token.type = RESERVED_COMMAND
           THEN formatCommand(token, [g EXCEPT !.currentNewline = checkNewline(g, cfg)], cfg)
      ELSE IF token.type = RESERVED_BINARY_COMMAND THEN formatBinaryCommand(token, g, cfg)
      ELSE IF token.type = RESERVED_DEPENDENT_CLAUSE THEN formatDependentClause(token, g, cfg)
      ELSE IF token.type = RESERVED_LOGICAL_OPERATOR THEN formatLogicalOperator(token, g, cfg)
      ELSE IF token.type = RESERVED_KEYWORD THEN formatKeyword(token, g, cfg)
      ELSE IF token.type = BLOCK_START THEN formatBlockStart(token, g, cfg)
      ELSE IF token.type = BLOCK_END THEN formatBlockEnd(token, g, cfg)
      ELSE IF token.type = PLACEHOLDER THEN formatPlaceholder(token, g, cfg)
      ELSE IF token.type = OPERATOR THEN formatOperator(token, g, cfg)
      ELSE formatWord(token, g, cfg)

\* a cursor that the lookahead of the newline heuristic drags to the clause end
loopStepSkipsClause(f, cfg) ==
  [formatToken(f, cfg) EXCEPT !.index =
     IF tokenAt(f.tokens, f.index).type = RESERVED_COMMAND
     THEN @ + 1 + Len(nextTokens(f.tokens, f.index)) ELSE @ + 1]

\* for (this.index = 0; this.index < this.tokens.length; this.index++)
loopStep(f, cfg) == [formatToken(f, cfg) EXCEPT !.index = @ + 1]

\* the fields the constructor sets
constructed ==
  [ query |-> <<>>, top |-> 0, block |-> 0, inline |-> NoInline,
    tokens |-> <<>>, index |-> -1,
    currentNewline |-> TRUE,
    previousReservedToken |-> NoToken,
    withinSelect |-> FALSE ]

\* format(): the tokens are replaced, the pass starts at index 0 with an
\* empty formattedQuery; every other field is left as the object holds it
beginFormat(f, tokens) ==
  [f EXCEPT !.tokens = tokens, !.index = 0, !.query = <<>>]

RECURSIVE runLoop(_, _)
runLoop(f, cfg) ==
  IF f.index < Len(f.tokens) THEN runLoop(loopStep(f, cfg), cfg) ELSE f

getFormattedQueryFromTokens(f, cfg) == replaceZWS(runLoop(f, cfg).query)

\* --------------------------------------------------------- line utilities
RECURSIVE split(_, _)
split(s, acc) ==
  IF Len(s) = 0 THEN <<acc>>
  ELSE IF s[1] = NL THEN <<acc>> \o split(Tail(s), <<>>)
       ELSE split(Tail(s), Append(acc, s[1]))

\* Array.prototype.join('\n'): an undefined element joins as the empty string
RECURSIVE join(_)
join(lines) ==
  IF Len(lines) = 0 THEN <<>>
  ELSE (IF Head(lines) = Undefined THEN <<>> ELSE Head(lines))
         \o (IF Len(lines) > 1 THEN <<NL>> \o join(Tail(lines)) ELSE <<>>)

\* lines[i] of JavaScript, 0-based, undefined outside the array
lineAt(lines, i) == IF i >= 0 /\ i < Len(lines) THEN lines[i + 1] ELSE Undefined

\* line.match(/.*,$/)
endsWithComma(line) == Len(line) > 0 /\ line[Len(line)] = ","

\* commaLine.replace(/,$/, '')
dropTrailingComma(line) ==
  IF endsWithComma(line) THEN SubSeq(line, 1, Len(line) - 1) ELSE line

RECURSIVE maxLength(_)
maxLength(lines) ==
  IF Len(lines) = 0 THEN 0
  ELSE LET m == maxLength(Tail(lines))
       IN  IF Len(Head(lines)) > m THEN Len(Head(lines)) ELSE m

RECURSIVE leadingWhitespace(_)
leadingWhitespace(line) ==
  IF Len(line) > 0 /\ IsWhitespace(line[1])
  THEN <<line[1]>> \o leadingWhitespace(Tail(line)) ELSE <<>>

endsWith(s, suffix) ==
  Len(s) >= Len(suffix) /\ SubSeq(s, Len(s) - Len(suffix) + 1, Len(s)) = suffix

\* a pass either returns a text or throws a TypeError
Returned(text) == [ok |-> TRUE, text |-> text]
Thrown == [ok |-> FALSE, text |-> <<>>]

\* ------------------------------------------------------- comma repositioning
\* the run collected by `while (lines[i++].match(/.*,$/))`: the lines of the
\* run, the index the loop leaves in i, and whether it read past the end
RECURSIVE collectRun(_, _, _)
collectRun(lines, i, run) ==
  IF lineAt(lines, i) = Undefined THEN [ok |-> FALSE, run |-> run, i |-> i]
  ELSE IF endsWithComma(lineAt(lines, i))
       THEN collectRun(lines, i + 1, Append(run, lineAt(lines, i + 1)))
       ELSE [ok |-> TRUE, run |-> run, i |-> i + 1]

tabularCommas(commaLines) ==
  LET stripped == [j \in 1..Len(commaLines) |-> dropTrailingComma(commaLines[j])]
      commaMaxLength == maxLength(stripped)
  IN  [j \in 1..Len(stripped) |->
         IF j < Len(stripped)
         THEN stripped[j] \o repeat(<<SP>>, commaMaxLength - Len(stripped[j])) \o <<",">>
         ELSE stripped[j]]

\* (isTabs ? '    ' : indent).replace(/ {2}$/, ', ')
commaIndent(cfg) ==
  LET isTabs == \E i \in 1..Len(indentUnit(cfg)) : indentUnit(cfg)[i] = TAB
      unit == IF isTabs THEN <<SP, SP, SP, SP>> ELSE indentUnit(cfg)
  IN  IF endsWith(unit, <<SP, SP>>)
      THEN SubSeq(unit, 1, Len(unit) - 2) \o <<",", SP>> ELSE unit

\* the leading whitespace with its last indent unit rewritten
beforeComma(commaLine, cfg) ==
  LET isTabs == \E i \in 1..Len(indentUnit(cfg)) : indentUnit(cfg)[i] = TAB
      unit == IF isTabs THEN <<TAB>> ELSE indentUnit(cfg)
      ws == leadingWhitespace(commaLine)
      rest == SubSeq(commaLine, Len(ws) + 1, Len(commaLine))
  IN  IF endsWith(ws, unit)
      THEN SubSeq(ws, 1, Len(ws) - Len(unit)) \o commaIndent(cfg) \o rest
      ELSE commaLine

\* commaLine.match(whitespaceRegex)![1] of a line without leading whitespace,
\* and any string method of an undefined line, throw
beforeThrows(commaLines) ==
  \E j \in 1..Len(commaLines) :
    \/ commaLines[j] = Undefined
    \/ j > 1 /\ Len(leadingWhitespace(dropTrailingComma(commaLines[j]))) = 0

RECURSIVE commaLoop(_, _, _, _)
commaLoop(lines, i, newQuery, cfg) ==
  IF i >= Len(lines) THEN Returned(join(newQuery))
  ELSE IF endsWithComma(lineAt(lines, i))
       THEN LET r == collectRun(lines, i, <<lineAt(lines, i)>>)
                throws == \/ ~r.ok
                          \/ \E j \in 1..Len(r.run) : r.run[j] = Undefined
                          \/ cfg.commaPosition = before /\ beforeThrows(r.run)
                commaLines ==
                  IF cfg.commaPosition = tabular THEN tabularCommas(r.run)
                  ELSE IF cfg.commaPosition = before
                       THEN [j \in 1..Len(r.run) |->
                               IF j > 1
                               THEN beforeComma(dropTrailingComma(r.run[j]), cfg)
                               ELSE dropTrailingComma(r.run[j])]
                       ELSE r.run
            IN  IF throws THEN Thrown
                ELSE commaLoop(lines, r.i + 1,
                               newQuery \o commaLines \o <<lineAt(lines, r.i)>>, cfg)
       ELSE commaLoop(lines, i + 1, Append(newQuery, lineAt(lines, i)), cfg)

formatCommaPositionsFromSecond(query, cfg) ==
  commaLoop(split(query, <<>>), 1, <<>>, cfg)

formatCommaPositions(query, cfg) == commaLoop(split(query, <<>>), 0, <<>>, cfg)

\* ----------------------------------------------------------- alias alignment
SELECT_WORD == <<"S","E","L","E","C","T">>

\* line.match(/^\s*SELECT/i)
startsWithSelect(line) ==
  LET n == Len(leadingWhitespace(line))
  IN  Len(line) >= n + 6 /\ toUpperCase(SubSeq(line, n + 1, n + 6)) = SELECT_WORD

\* line.match(/^\s*SELECT\s+.+(?!,$)/i): a white space and one more character
\* follow the keyword
selectWithText(line) ==
  LET n == Len(leadingWhitespace(line))
  IN  /\ startsWithSelect(line)
      /\ Len(line) >= n + 8
      /\ IsWhitespace(line[n + 7])

lastWhitespace(line) ==
  IF \E i \in 1..Len(line) : IsWhitespace(line[i])
  THEN CHOOSE i \in 1..Len(line) :
         IsWhitespace(line[i]) /\ \A j \in (i + 1)..Len(line) : ~IsWhitespace(line[j])
  ELSE 0

\* line.split(/(?<=[^\s]+) (AS )?(?=[^\s]+,?$)/i) as { precedingText, as, alias }
splitAlias(line) ==
  LET p == lastWhitespace(line)
      tail == p > 0 /\ p < Len(line) /\ line[p] = SP
      withAs == /\ tail
                /\ p >= 5
                /\ line[p - 3] = SP
                /\ toUpperCase(SubSeq(line, p - 2, p - 1)) = <<"A","S">>
                /\ ~IsWhitespace(line[p - 4])
      plain == tail /\ p >= 2 /\ ~IsWhitespace(line[p - 1])
  IN  IF withAs
      THEN [precedingText |-> SubSeq(line, 1, p - 4),
            as |-> SubSeq(line, p - 2, p),
            alias |-> SubSeq(line, p + 1, Len(line))]
      ELSE IF plain
           THEN [precedingText |-> SubSeq(line, 1, p - 1),
                 as |-> <<>>,
                 alias |-> SubSeq(line, p + 1, Len(line))]
           ELSE [precedingText |-> line, as |-> <<>>, alias |-> <<>>]

\* precedingText.replace(/\s*,\s*$/, '')
trimTrailingComma(text) ==
  LET t == trimEnd(text)
  IN  IF endsWithComma(t) THEN trimEnd(SubSeq(t, 1, Len(t) - 1)) ELSE text

alignAliasesNoGap(aliasLines) ==
  LET splitLines == [j \in 1..Len(aliasLines) |-> splitAlias(aliasLines[j])]
      aliasMaxLength ==
        maxLength([j \in 1..Len(splitLines) |->
                     trimTrailingComma(splitLines[j].precedingText)])
  IN  [j \in 1..Len(splitLines) |->
         splitLines[j].precedingText
           \o (IF Len(splitLines[j].alias) > 0
               THEN repeat(<<SP>>, aliasMaxLength - Len(splitLines[j].precedingText))
                      \o splitLines[j].as \o splitLines[j].alias
               ELSE <<>>)]

alignAliases(aliasLines) ==
  LET splitLines == [j \in 1..Len(aliasLines) |-> splitAlias(aliasLines[j])]
      aliasMaxLength ==
        maxLength([j \in 1..Len(splitLines) |->
                     trimTrailingComma(splitLines[j].precedingText)])
  IN  [j \in 1..Len(splitLines) |->
         splitLines[j].precedingText
           \o (IF Len(splitLines[j].alias) > 0
               THEN repeat(<<SP>>, aliasMaxLength - Len(splitLines[j].precedingText) + 1)
                      \o splitLines[j].as \o splitLines[j].alias
               ELSE <<>>)]

RECURSIVE aliasLoop(_, _, _)
aliasLoop(lines, i, newQuery) ==
  IF i >= Len(lines) THEN Returned(join(newQuery))
  ELSE IF startsWithSelect(lineAt(lines, i))
       THEN IF ~endsWithComma(lineAt(lines, i)) /\ selectWithText(lineAt(lines, i))
            THEN aliasLoop(lines, i + 1, Append(newQuery, lineAt(lines, i)))
            ELSE LET own == ~endsWithComma(lineAt(lines, i))
                     start == IF own THEN i + 1 ELSE i
                     pushed == IF own THEN Append(newQuery, lineAt(lines, i)) ELSE newQuery
                     r == collectRun(lines, start, <<lineAt(lines, start)>>)
                     throws == ~r.ok \/ \E j \in 1..Len(r.run) : r.run[j] = Undefined
                 IN  IF throws THEN Thrown
                     ELSE aliasLoop(lines, r.i + 1,
                                    pushed \o alignAliases(r.run) \o <<lineAt(lines, r.i)>>)
       ELSE aliasLoop(lines, i + 1, Append(newQuery, lineAt(lines, i)))

formatAliasPositions(query) == aliasLoop(split(query, <<>>), 0, <<>>)

\* ---------------------------------------------------------------- format()
postFormat(query, cfg) ==
  LET a == IF cfg.tabulateAlias THEN formatAliasPositions(query) ELSE Returned(query)
  IN  IF ~a.ok THEN Thrown
      ELSE IF cfg.commaPosition # after THEN formatCommaPositions(a.text, cfg)
      ELSE a

\* finalQuery.replace(/^\n*/u, '').trimEnd()
finalTrim(text) == trimEnd(stripLeadingNewlines(text))

\* --------------------------------------------------------------- tokenizer
Digits == {"0","1","2","3","4","5","6","7","8","9"}
IsWordChar(c) == IsLower(c) \/ IsUpper(c) \/ c \in Digits \/ c = "_"

\* the dialect's reserved words
reservedType(word) ==
  LET u == toUpperCase(word)
  IN  IF u \in {<<"S","E","L","E","C","T">>, <<"F","R","O","M">>,
                <<"W","H","E","R","E">>, <<"L","I","M","I","T">>}
      THEN RESERVED_COMMAND
      ELSE IF u \in {<<"U","N","I","O","N">>, <<"J","O","I","N">>}
      THEN RESERVED_BINARY_COMMAND
      ELSE IF u \in {<<"A","N","D">>, <<"O","R">>} THEN RESERVED_LOGICAL_OPERATOR
      ELSE IF u \in {<<"B","E","T","W","E","E","N">>, <<"A","S">>} THEN RESERVED_KEYWORD
      ELSE IF u = <<"O","N">> THEN RESERVED_DEPENDENT_CLAUSE
      ELSE IF u = <<"C","A","S","E">> THEN BLOCK_START
      ELSE IF u = <<"E","N","D">> THEN BLOCK_END
      ELSE WORD

\* length of the longest prefix of s whose characters satisfy the test
RECURSIVE wordRun(_)
wordRun(s) == IF Len(s) > 0 /\ IsWordChar(s[1]) THEN 1 + wordRun(Tail(s)) ELSE 0

RECURSIVE digitRun(_)
digitRun(s) == IF Len(s) > 0 /\ s[1] \in Digits THEN 1 + digitRun(Tail(s)) ELSE 0

\* length of s up to and including the first occurrence of `close` at or
\* after position `from`, the whole of s when there is none
upTo(s, close, from) ==
  LET n == Len(close)
      hits == {i \in from..(Len(s) - n + 1) : SubSeq(s, i, i + n - 1) = close}
  IN  IF hits = {} THEN Len(s)
      ELSE (CHOOSE i \in hits : \A j \in hits : i <= j) + n - 1

\* the first token of a text that starts with no white space: its length and kind
firstToken(s) ==
  IF Len(s) >= 2 /\ SubSeq(s, 1, 2) = <<"/","*">>
  THEN [n |-> upTo(s, <<"*","/">>, 3), type |-> BLOCK_COMMENT]
  ELSE IF Len(s) >= 2 /\ SubSeq(s, 1, 2) = <<"-","-">>
  THEN [n |-> upTo(s, <<NL>>, 1) - (IF \E i \in 1..Len(s) : s[i] = NL THEN 1 ELSE 0),
        type |-> LINE_COMMENT]
  ELSE IF s[1] = "'" THEN [n |-> upTo(s, <<"'">>, 2), type |-> STRING_TOKEN]
  ELSE IF s[1] = "?" THEN [n |-> 1, type |-> PLACEHOLDER]
  ELSE IF s[1] = ":" /\ wordRun(Tail(s)) > 0
  THEN [n |-> 1 + wordRun(Tail(s)), type |-> PLACEHOLDER]
  ELSE IF s[1] \in Digits THEN [n |-> digitRun(s), type |-> NUMBER]
  ELSE IF s[1] = "(" THEN [n |-> 1, type |-> BLOCK_START]
  ELSE IF s[1] = ")" THEN [n |-> 1, type |-> BLOCK_END]
  ELSE IF IsWordChar(s[1])
  THEN [n |-> wordRun(s), type |-> reservedType(SubSeq(s, 1, wordRun(s)))]
  ELSE [n |-> 1, type |-> OPERATOR]

RECURSIVE tokenize(_)
tokenize(text) ==
  LET ws == leadingWhitespace(text)
      s == SubSeq(text, Len(ws) + 1, Len(text))
  IN  IF Len(s) = 0 THEN <<>>
      ELSE LET t == firstToken(s)
           IN  <<Token(SubSeq(s, 1, t.n), t.type, ws)>>
                 \o tokenize(SubSeq(s, t.n + 1, Len(s)))

\* sqlFormatter.format: a new Formatter formats the text
format(text, cfg) ==
  LET r == postFormat(
             getFormattedQueryFromTokens(beginFormat(constructed, tokenize(text)), cfg),
             cfg)
  IN  IF r.ok THEN Returned(finalTrim(r.text)) ELSE Thrown

\* ------------------------------------------------------------------ inputs
kw(v, t) == Token(v, t, <<SP>>)

tSelect == Token(<<"s","e","l","e","c","t">>, RESERVED_COMMAND, <<>>)
tFrom == kw(<<"f","r","o","m">>, RESERVED_COMMAND)
tWhere == kw(<<"w","h","e","r","e">>, RESERVED_COMMAND)
tLimit == kw(<<"l","i","m","i","t">>, RESERVED_COMMAND)
tUnion == kw(<<"u","n","i","o","n">>, RESERVED_BINARY_COMMAND)
tJoin == kw(<<"j","o","i","n">>, RESERVED_BINARY_COMMAND)
tAnd == kw(<<"a","n","d">>, RESERVED_LOGICAL_OPERATOR)
tOr == kw(<<"O","r">>, RESERVED_LOGICAL_OPERATOR)
tBetween == kw(<<"b","e","t","w","e","e","n">>, RESERVED_KEYWORD)
tAs == kw(<<"a","s">>, RESERVED_KEYWORD)
tOn == kw(<<"o","n">>, RESERVED_DEPENDENT_CLAUSE)
tCase == kw(<<"c","a","s","e">>, BLOCK_START)
tEnd == kw(<<"e","n","d">>, BLOCK_END)
tOpen == Token(<<"(">>, BLOCK_START, <<>>)
tOpenSp == Token(<<"(">>, BLOCK_START, <<SP>>)
tClose == Token(<<")">>, BLOCK_END, <<>>)
tA == kw(<<"a">>, WORD)
tB == kw(<<"b">>, WORD)
tBb == kw(<<"B","b">>, WORD)
tT == kw(<<"t">>, WORD)
tOne == kw(<<"1">>, NUMBER)
tTwo == kw(<<"2">>, NUMBER)
tStar == kw(<<"*">>, OPERATOR)
tComma == Token(<<",">>, OPERATOR, <<>>)
tSemi == Token(<<";">>, OPERATOR, <<>>)
tEq == kw(<<"=">>, OPERATOR)
tDot == Token(<<".">>, OPERATOR, <<>>)
tString == kw(<<"'","s","'">>, STRING_TOKEN)
tParam == kw(<<"?">>, PLACEHOLDER)
tNamedN == kw(<<":","n">>, PLACEHOLDER)
tNamedM == kw(<<":","m">>, PLACEHOLDER)
tLineComment == kw(<<"-","-","c",SP>>, LINE_COMMENT)
tBlockComment == kw(<<"/","*","c",NL,"d","*","/">>, BLOCK_COMMENT)

\* the tokens every short sequence is built from
Lexicon ==
  { tSelect, tFrom, tUnion, tAnd, tBetween, tAs, tOn, tCase, tEnd, tOpen, tClose,
    tA, tBb, tOne, tComma, tSemi, tEq, tDot, tString, tParam,
    tLineComment, tBlockComment }

RECURSIVE SeqsUpTo(_, _)
SeqsUpTo(S, n) ==
  IF n = 0 THEN {<<>>}
  ELSE LET shorter == SeqsUpTo(S, n - 1)
       IN  shorter \cup {Append(q, x) : q \in {r \in shorter : Len(r) = n - 1}, x \in S}

\* well-formed statements
qSelectAB == <<tSelect, tA, tComma, tB, tFrom, tT>>
qBetween == <<tSelect, tStar, tFrom, tT, tWhere, tA, tBetween, tOne, tAnd, tTwo>>
qSubquery == <<tSelect, tA, tFrom, tOpenSp, tSelect, tBb, tFrom, tT, tClose>>
qWhereAnd == <<tSelect, tA, tFrom, tT, tWhere, tA, tEq, tOne, tAnd, tBb, tEq, tTwo>>
qUnion == <<tSelect, tA, tUnion, tSelect, tBb>>
qCase == <<tSelect, tCase, tA, tEnd, tBb, tComma, tA, tFrom, tT>>
qJoinOn == <<tSelect, tA, tFrom, tT, tJoin, tBb, tOn, tA, tEq, tOne>>
qTwoStatements == <<tSelect, tA, tSemi, Token(<<"s","e","l","e","c","t">>, RESERVED_COMMAND, <<NL>>), tBb>>
qCall == <<tSelect, tA, tOpen, tBb, tComma, tOne, tClose, tAs, tT, tComma, tBb, tFrom, tT>>
qComments == <<tSelect, tA, tComma, tBlockComment, tBb, tLineComment, tFrom, tT>>
qLimit == <<tSelect, tA, tFrom, tT, tLimit, tOne, tComma, tTwo>>
qSpaced == <<tSelect, tA, Token(<<"f","r","o","m">>, RESERVED_COMMAND, <<NL, SP, SP, SP, SP>>), tT, tSemi>>
exampleText == <<"s","e","l","e","c","t",SP,"a",",","b",SP,"f","r","o","m",SP,"t">>
qExample == tokenize(exampleText)
qParams == <<tSelect, tNamedN, tComma, tNamedM, tComma, tParam, tFrom, tT>>
qAlias == <<tSelect, tA, tAs, tT, tComma, tBb, tAs, tB, tFrom, tT>>
qAliasMix == <<tSelect, tA, tEq, tOne, tComma, tBb, tDot, tBb, tT, tComma, tA, tFrom, tT>>
qNested == <<tSelect, tA, tOpen, tBb, tOpen, tA, tClose, tComma, tA, tComma, tA, tClose, tFrom, tT>>
qInlineCase == <<tSelect, tOpen, tCase, tA, tEnd, tClose, tFrom, tT>>
qCommaRuns == <<tSelect, tA, tComma, tBb, tLineComment, tA, tComma, tB>>
qLimitThen == <<tSelect, tA, tLimit, tOne, tSemi, tSelect, tA, tComma, tB>>
qIndented == <<Token(<<"s","e","l","e","c","t">>, RESERVED_COMMAND, <<SP, SP, SP>>), tA>>

WellFormed ==
  { qSelectAB, qBetween, qSubquery, qWhereAnd, qUnion, qCase, qJoinOn,
    qTwoStatements, qCall, qComments, qLimit, qSpaced, qExample, qParams, qAlias, qAliasMix,
    qNested, qInlineCase, qCommaRuns, qLimitThen, qIndented }

\* token sequences that are not statements: blocks inside blocks with a
\* separator in them, a statement left open before a separator
qNestedSeparator == <<tOpen, tSelect, tOpen, tSelect, tSemi, tClose, tClose>>
qBlockInBlock == <<tOpen, tSelect, tA, tOpen, tBb, tClose, tClose>>
qOpenThen == <<tSelect, tOpen, tSelect, tA, tSemi, tSelect, tBb>>
qLimitThenItems == <<tSelect, tA, tLimit, tOne, tSemi, tA, tComma, tB>>

Fragments == { qNestedSeparator, qBlockInBlock, qOpenThen, qLimitThenItems }

SmallWidth == 10

ShortCfgs ==
  { DefaultCfg,
    [DefaultCfg EXCEPT !.newline = never, !.tabulateAlias = TRUE],
    [DefaultCfg EXCEPT !.newline = lineWidthMode, !.lineWidth = SmallWidth,
                       !.uppercase = FALSE],
    [DefaultCfg EXCEPT !.keywordPosition = tenSpaceLeft,
                       !.breakBeforeBooleanOperator = FALSE],
    [DefaultCfg EXCEPT !.commaPosition = before, !.aliasAs = aliasAlways,
                       !.closeParenNewline = FALSE] }

LongCfgs ==
  ShortCfgs \cup
  { [DefaultCfg EXCEPT !.newline = never],
    [DefaultCfg EXCEPT !.newline = never, !.breakBeforeBooleanOperator = FALSE],
    [DefaultCfg EXCEPT !.newline = never, !.keywordPosition = tenSpaceRight],
    [DefaultCfg EXCEPT !.newline = lineWidthMode, !.lineWidth = SmallWidth],
    [DefaultCfg EXCEPT !.newline = lineWidthMode],
    [DefaultCfg EXCEPT !.newline = itemCount, !.newlineItems = 1],
    [DefaultCfg EXCEPT !.keywordPosition = tenSpaceRight],
    [DefaultCfg EXCEPT !.keywordPosition = tenSpaceLeft],
    [DefaultCfg EXCEPT !.breakBeforeBooleanOperator = FALSE],
    [DefaultCfg EXCEPT !.uppercase = FALSE],
    [DefaultCfg EXCEPT !.aliasAs = aliasNever],
    [DefaultCfg EXCEPT !.aliasAs = aliasAlways],
    [DefaultCfg EXCEPT !.tabulateAlias = TRUE],
    [DefaultCfg EXCEPT !.commaPosition = tabular],
    [DefaultCfg EXCEPT !.commaPosition = before, !.indent = <<TAB>>],
    [DefaultCfg EXCEPT !.openParenNewline = FALSE, !.closeParenNewline = FALSE],
    [DefaultCfg EXCEPT !.denseOperators = TRUE, !.semicolonNewline = TRUE],
    [DefaultCfg EXCEPT !.linesBetweenQueries = 2],
    [DefaultCfg EXCEPT !.linesBetweenQueries = 0],
    [DefaultCfg EXCEPT !.params = NamedParams] }

\* ------------------------------------------------------------ state machine
VARIABLES input, cfg, tokens, index, query, topLevel, blockLevel, inlineBlock,
          currentNewline, previousReservedToken, withinSelect,
          formattedQuery, result, pc, calls, firstResult

vars == <<input, cfg, tokens, index, query, topLevel, blockLevel, inlineBlock,
          currentNewline, previousReservedToken, withinSelect,
          formattedQuery, result, pc, calls, firstResult>>

\* the Formatter object as one record
Formatter ==
  [ query |-> query, top |-> topLevel, block |-> blockLevel, inline |-> inlineBlock,
    tokens |-> tokens, index |-> index,
    currentNewline |-> currentNewline,
    previousReservedToken |-> previousReservedToken,
    withinSelect |-> withinSelect ]

Becomes(g) ==
  /\ query' = g.query
  /\ topLevel' = g.top
  /\ blockLevel' = g.block
  /\ inlineBlock' = g.inline
  /\ tokens' = g.tokens
  /\ index' = g.index
  /\ currentNewline' = g.currentNewline
  /\ previousReservedToken' = g.previousReservedToken
  /\ withinSelect' = g.withinSelect

\* format(query) was called on a fresh Formatter and the tokenizer returned
Init ==
  /\ \/ input \in SeqsUpTo(Lexicon, MaxLen) /\ cfg \in ShortCfgs
     \/ input \in WellFormed /\ cfg \in LongCfgs
     \/ input \in Fragments /\ cfg \in ShortCfgs
  /\ tokens = input
  /\ index = 0
  /\ query = <<>>
  /\ topLevel = 0
  /\ blockLevel = 0
  /\ inlineBlock = NoInline
  /\ currentNewline = TRUE
  /\ previousReservedToken = NoToken
  /\ withinSelect = FALSE
  /\ formattedQuery = <<>>
  /\ result = <<>>
  /\ pc = "format"
  /\ calls = 1
  /\ firstResult = <<>>

Dispatch(types) ==
  /\ pc = "format"
  /\ index < Len(tokens)
  /\ tokens[index + 1].type \in types
  /\ Becomes(loopStep(Formatter, cfg))
  /\ UNCHANGED <<input, cfg, formattedQuery, result, pc, calls, firstResult>>

LineComment == Dispatch({LINE_COMMENT})
BlockComment == Dispatch({BLOCK_COMMENT})
Command == Dispatch({RESERVED_COMMAND})
BinaryCommand == Dispatch({RESERVED_BINARY_COMMAND})
DependentClause == Dispatch({RESERVED_DEPENDENT_CLAUSE})
LogicalOperator == Dispatch({RESERVED_LOGICAL_OPERATOR})
Keyword == Dispatch({RESERVED_KEYWORD})
BlockStart == Dispatch({BLOCK_START})
BlockEnd == Dispatch({BLOCK_END})
Placeholder == Dispatch({PLACEHOLDER})
Operator == Dispatch({OPERATOR})
Word == Dispatch({WORD, STRING_TOKEN, NUMBER})

PassEnded == pc = "format" /\ index = Len(tokens)

\* the loop ends, postFormat and the final trim return
Return ==
  /\ PassEnded
  /\ postFormat(replaceZWS(query), cfg).ok
  /\ formattedQuery' = replaceZWS(query)
  /\ result' = finalTrim(postFormat(replaceZWS(query), cfg).text)
  /\ pc' = "done"
  /\ UNCHANGED <<input, cfg, tokens, index, query, topLevel, blockLevel, inlineBlock,
                 currentNewline, previousReservedToken, withinSelect,
                 calls, firstResult>>

\* the loop ends and a post-format pass throws a TypeError
Throw ==
  /\ PassEnded
  /\ ~postFormat(replaceZWS(query), cfg).ok
  /\ formattedQuery' = replaceZWS(query)
  /\ pc' = "failed"
  /\ UNCHANGED <<input, cfg, tokens, index, query, topLevel, blockLevel, inlineBlock,
                 currentNewline, previousReservedToken, withinSelect, result,
                 calls, firstResult>>

\* format is called once more on the same Formatter with the same text: the
\* text is tokenized anew and the loop restarts at index 0, every other field
\* of the object is as the first call left it
FormatAgain ==
  /\ pc = "done"
  /\ calls = 1
  /\ Becomes(beginFormat(Formatter, input))
  /\ pc' = "format"
  /\ calls' = 2
  /\ firstResult' = result
  /\ UNCHANGED <<input, cfg, formattedQuery, result>>

Next ==
  \/ LineComment \/ BlockComment \/ Command \/ BinaryCommand \/ DependentClause
  \/ LogicalOperator \/ Keyword \/ BlockStart \/ BlockEnd \/ Placeholder
  \/ Operator \/ Word \/ Return \/ Throw \/ FormatAgain

Spec == Init /\ [][Next]_vars

\* ------------------------------------------------------------------ claims
Stepping == pc = "format" /\ index < Len(tokens)
current == tokens[index + 1]

RECURSIVE commonPrefixFrom(_, _, _)
commonPrefixFrom(s, t, i) ==
  IF i <= Len(s) /\ i <= Len(t) /\ s[i] = t[i] THEN commonPrefixFrom(s, t, i + 1) ELSE i - 1

commonPrefix(s, t) == commonPrefixFrom(s, t, 1)

\* the text one turn of the loop added behind what it kept of the old text
Delta(old, new) == SubSeq(new, commonPrefix(old, new) + 1, Len(new))

contains(s, sub) ==
  \E i \in 1..(Len(s) - Len(sub) + 1) : SubSeq(s, i, i + Len(sub) - 1) = sub

RECURSIVE nonBlank(_)
nonBlank(s) ==
  IF Len(s) = 0 THEN <<>>
  ELSE IF IsTokenSpace(s[1]) THEN nonBlank(Tail(s)) ELSE <<s[1]>> \o nonBlank(Tail(s))

hasNewline(s) == \E i \in 1..Len(s) : s[i] = NL

\* C1: formatting the output of format(x, cfg) again with the same cfg yields
\* the same string, for every well-formed statement x
C1_Idempotent ==
  pc = "done" /\ input \in WellFormed => format(result, cfg) = Returned(result)

\* C2: format always returns a string, no post-format pass reads a line past
\* the end and fails; stated for the configurations that leave the commas
\* where they are, so that only the alias pass can be the one that fails
C2_AlwaysReturns == cfg.commaPosition = after => pc # "failed"

\* C3: the top-level depth and the block depth are never negative
C3_DepthNonNegative == topLevel >= 0 /\ blockLevel >= 0

\* a BLOCK_END was processed with no block open
C3_Witness ==
  /\ pc = "format"
  /\ index = 1
  /\ tokens[1].type = BLOCK_END
  /\ blockLevel = 0

\* C4: the cursor starts at 0 and stays within the sequence, every turn of the
\* loop moves it by exactly one and leaves the sequence's length alone (so the
\* tokens are dispatched once each, in order, and the distance to the end
\* strictly decreases), every token left has a kind the dispatch handles, and
\* nothing moves the cursor once the pass has ended, until format is called anew
C4_SinglePass ==
  /\ index = 0
  /\ [](index >= 0 /\ index <= Len(tokens))
  /\ [](Stepping => current.type \in TokenTypes)
  /\ [][Stepping => index' = index + 1 /\ Len(tokens') = Len(tokens)]_vars
  /\ [][(~Stepping /\ calls' = calls) => index' = index]_vars
  /\ [](pc # "format" => index = Len(tokens))

\* a ten token statement with three commands was dispatched to its end
C4_Witness == pc = "done" /\ input = qBetween /\ index = 10

cased(text) == IF cfg.uppercase THEN toUpperCase(text) ELSE toLowerCase(text)
wrongCase(c) == IF cfg.uppercase THEN IsLower(c) ELSE IsUpper(c)

\* what a turn of the loop may add for the token it dispatches: a reserved or
\* block token in the configured case (or nothing, a skipped AS), a word,
\* string or number as it is, after an inserted AS in the configured case at
\* most, an operator as it is, a comment as it is (exactComments) or up to
\* its white space
casingOf(t, d, exactComments) ==
        IF isReserved(t) \/ t.type \in {BLOCK_START, BLOCK_END}
        THEN /\ \A i \in 1..Len(d) : ~wrongCase(d[i])
             /\ nonBlank(d) \in {<<>>, cased(nonBlank(input[index + 1].value))}
        ELSE IF t.type \in {WORD, STRING_TOKEN, NUMBER}
        THEN d \in {t.value \o <<SP>>,
                    cased(<<"a","s">>) \o <<SP>> \o t.value \o <<SP>>}
        ELSE IF t.type = OPERATOR THEN contains(d, t.value)
        ELSE IF t.type \in {LINE_COMMENT, BLOCK_COMMENT}
        THEN IF exactComments THEN contains(d, t.value)
             ELSE /\ nonBlank(d) = nonBlank(t.value)
                  /\ t.type = LINE_COMMENT => contains(d, trimSpacesEnd(t.value))
        ELSE TRUE

casingStep(exactComments) ==
  Stepping => casingOf(current, Delta(query, query'), exactComments)

C6_NoTrailingWhitespace ==
  pc = "done" =>
    \A i \in 1..Len(split(result, <<>>)) :
      LET line == split(result, <<>>)[i]
      IN  Len(line) = 0 \/ line[Len(line)] \notin {SP, TAB}

\* ---- clauses as the claims speak of them
\* index of the last clause boundary before token i, -1 when there is none
clauseStart(i) ==
  LET js == {j \in 0..(i - 1) : isClauseEnd(tokens[j + 1])}
  IN  IF js = {} THEN -1 ELSE CHOOSE j \in js : \A k \in js : k <= j

\* index of the first clause boundary after token c, the length when none
clauseEnd(c) ==
  LET js == {j \in (c + 1)..(Len(tokens) - 1) : isClauseEnd(tokens[j + 1])}
  IN  IF js = {} THEN Len(tokens) ELSE CHOOSE j \in js : \A k \in js : j <= k

\* token i lies inside the clause of a RESERVED_COMMAND
inCommandClause(i) ==
  /\ clauseStart(i) >= 0
  /\ tokens[clauseStart(i) + 1].type = RESERVED_COMMAND
  /\ ~isClauseEnd(tokens[i + 1])

clauseHasCase(c) == \E j \in (c + 1)..(clauseEnd(c) - 1) : isCASE(tokens[j + 1])

lastLine(text) ==
  LET lines == split(text, <<>>) IN lines[Len(lines)]

\* the text ends in a line that holds something: no break follows its last token
noBreakAtEnd(text) == nonBlank(lastLine(text)) # <<>>

\* in mode `never`, outside clauses with a CASE: no break after a command
\* keyword and none in the turn of a clause token that is a comma or of one
\* of the kinds
neverStep(kinds) ==
  cfg.newline = never /\ Stepping =>
    /\ (current.type = RESERVED_COMMAND /\ ~clauseHasCase(index))
         => noBreakAtEnd(query')
    /\ ( /\ inCommandClause(index)
         /\ ~clauseHasCase(clauseStart(index))
         /\ (current.value = <<",">> \/ current.type \in kinds) )
         => ~hasNewline(Delta(query, query'))

\* C7 as stated: in mode `never` no break after the keyword, after a comma,
\* around a logical operator, at a parenthesis or before a dependent clause
C7_Original ==
  [][neverStep({RESERVED_LOGICAL_OPERATOR, BLOCK_START, BLOCK_END,
                RESERVED_DEPENDENT_CLAUSE})]_vars

\* C7 amended: in mode `never` no break after the keyword, after a comma or
\* around a logical operator, unless the clause's span contains a CASE block
C7_NeverNoWrap == [][neverStep({RESERVED_LOGICAL_OPERATOR})]_vars

\* a two item SELECT clause and a FROM clause, each kept on its line
C7_Witness ==
  /\ pc = "done"
  /\ input = qSelectAB
  /\ cfg = [DefaultCfg EXCEPT !.newline = never]
  /\ result = <<"S","E","L","E","C","T",SP,"a",",",SP,"b",NL,"F","R","O","M",SP,"t">>

\* the width of a clause rendered on one line: the keyword, and each token
\* after one space, a comma after none
RECURSIVE renderedWidth(_, _)
renderedWidth(c, j) ==
  IF j >= clauseEnd(c) THEN 0
  ELSE (IF tokens[j + 1].value = <<",">> THEN 1 ELSE 1 + Len(tokens[j + 1].value))
         + renderedWidth(c, j + 1)

clauseWidth(c) == Len(input[c + 1].value) + renderedWidth(c, c + 1)

\* a clause of words, numbers, strings and operators only
plainClause(c) ==
  \A j \in (c + 1)..(clauseEnd(c) - 1) :
    tokens[j + 1].type \in {WORD, NUMBER, STRING_TOKEN, OPERATOR}

fits(c) == plainClause(c) /\ clauseWidth(c) <= cfg.lineWidth

\* C8: in mode lineWidth (standard keyword position) a clause whose one-line
\* rendering does not exceed lineWidth is put on one line: no break after the
\* keyword and none in the turn of any of its tokens
C8_FitsOnOneLine ==
  [][cfg.newline = lineWidthMode /\ ~tenSpace(cfg) /\ Stepping =>
       /\ (current.type = RESERVED_COMMAND /\ fits(index)) => noBreakAtEnd(query')
       /\ (inCommandClause(index) /\ fits(clauseStart(index)))
            => ~hasNewline(Delta(query, query'))]_vars

\* ---- the default layout
\* the keyword in upper case on the line before last, at the given depth, and
\* the line after it opened at the depth now current
keywordLine(text, value, depth) ==
  LET lines == split(text, <<>>)
      n == Len(lines)
  IN  /\ n >= 2
      /\ lines[n - 1] = repeat(cfg.indent, depth) \o toUpperCase(value)
      /\ lines[n] = repeat(cfg.indent, topLevel' + blockLevel')

fromParen == isFROM(current) /\ tokenLookAhead(Formatter, 1).value = <<"(">>

outsideParens == ~isActive(Formatter) /\ blockLevel = 0

commaBreaks == query' = trimSpacesEnd(query) \o <<",", NL>>
                          \o repeat(cfg.indent, topLevel + blockLevel)

commaInline == query' = trimSpacesEnd(query) \o <<",", SP>>

\* under the default options: a command keyword is on its own line with the
\* next line one unit deeper, a comma outside parentheses ends its line and
\* the next item starts at the clause's item depth, `;` follows the text
\* before it without a space; with exceptions, not so for the commas of a
\* LIMIT clause nor for the depth after a FROM that a parenthesis follows
defaultStep(exceptions) ==
  cfg = DefaultCfg /\ Stepping =>
    /\ current.type = RESERVED_COMMAND =>
         IF exceptions /\ fromParen
         THEN keywordLine(query', current.value, topLevel' + blockLevel')
         ELSE keywordLine(query', current.value, topLevel' + blockLevel' - 1)
    /\ (current.value = <<",">> /\ outsideParens) =>
         IF exceptions /\ isLIMIT(previousReservedToken)
         THEN commaInline
         ELSE commaBreaks
    /\ current.value = <<";">> =>
         /\ query' = trimSpacesEnd(query) \o <<";", NL, NL>>
         /\ topLevel' = 0 /\ blockLevel' = 0

exampleHolds ==
  (pc = "done" /\ input = qExample /\ cfg = DefaultCfg) =>
    result = <<"S","E","L","E","C","T",NL,SP,SP,"a",",",NL,SP,SP,"b",NL,
               "F","R","O","M",NL,SP,SP,"t">>

betweenAnd == Stepping /\ isAND(current) /\ isBETWEEN(tokenAt(tokens, index - 2))

operandBefore ==
  tokenAt(tokens, index - 1).type \in {WORD, NUMBER, STRING_TOKEN} =>
    /\ Len(query) >= 2
    /\ query[Len(query)] = SP
    /\ query[Len(query) - 1] \notin {SP, TAB, NL, ZWS}

\* C10 as stated: the AND that follows BETWEEN and one operand is emitted in
\* line, one space on each side, without a break and without a change of
\* indentation
C10_Original ==
  [][betweenAnd =>
       /\ operandBefore
       /\ query' = query \o cased(input[index + 1].value) \o <<SP>>
       /\ topLevel' = topLevel /\ blockLevel' = blockLevel]_vars

\* C10 amended: the AND that follows BETWEEN and one operand is appended to
\* the line in the configured case, after one space and before one, without
\* a break and without a change of indentation; in the ten-space keyword
\* positions it carries its padding to the keyword column besides
C10_BetweenAnd ==
  [][betweenAnd =>
       LET d == Delta(query, query')
       IN  /\ operandBefore
           /\ query' = query \o d
           /\ ~hasNewline(d)
           /\ nonBlank(d) = cased(input[index + 1].value)
           /\ d[Len(d)] = SP
           /\ ~tenSpace(cfg) => d = cased(input[index + 1].value) \o <<SP>>
           /\ topLevel' = topLevel /\ blockLevel' = blockLevel]_vars

\* a BETWEEN range formatted on one line under the default options
C10_Witness ==
  /\ pc = "done"
  /\ input = qBetween
  /\ cfg = DefaultCfg
  /\ contains(result, <<"B","E","T","W","E","E","N",SP,"1",SP,"A","N","D",SP,"2">>)

\* ---- statement separators
\* the number of line breaks that follow position i of the text directly
RECURSIVE newlinesAfter(_, _)
newlinesAfter(text, i) ==
  IF i < Len(text) /\ text[i + 1] = NL THEN 1 + newlinesAfter(text, i + 1) ELSE 0

\* C11: in the output of a well-formed input every `;` that another statement
\* follows is followed by exactly linesBetweenQueries blank lines, that is by
\* one line break more than that, for every count n >= 0
C11_BlankLinesAfterSeparator ==
  (pc = "done" /\ input \in WellFormed) =>
    \A i \in 1..(Len(result) - 1) :
      result[i] = ";" => newlinesAfter(result, i) = cfg.linesBetweenQueries + 1

\* ---- placeholders
\* the placeholder's name has no value in the parameters of the call
unresolved(token) ==
  ~(/\ cfg.params.given
    /\ placeholderKey(token) # <<>>
    /\ placeholderKey(token) = cfg.params.key)

\* C12: the turn of a PLACEHOLDER token for which no parameter value was
\* supplied appends the placeholder's original text and one space, nothing
\* else, and the pass goes on
C12_PlaceholderFallback ==
  [][(Stepping /\ current.type = PLACEHOLDER /\ unresolved(current)) =>
       /\ query' = query \o current.value \o <<SP>>
       /\ pc' = "format"]_vars

\* ---- successive calls
\* C13: a second format call on the same Formatter with the same input
\* returns the same string as the first, whatever the first call left behind
C13_SecondCallSame == (pc = "done" /\ calls = 2) => result = firstResult

\* ---- alias alignment
\* the lines the alias pass is given, and the lines it gives back
linesBefore == split(formattedQuery, <<>>)
linesAligned == split(formatAliasPositions(formattedQuery).text, <<>>)

\* the alias of a line is its last word when a space and text precede it;
\* the position of the space before that word, 0 when the line has no alias
aliasSpace(line) ==
  LET p == lastWhitespace(line)
  IN  IF /\ p >= 2 /\ p < Len(line) /\ line[p] = SP
         /\ ~IsWhitespace(line[p - 1])
      THEN p ELSE 0

\* the alias part starts at the AS keyword when one stands before the alias
hasAsKeyword(line) ==
  LET p == aliasSpace(line)
  IN  /\ p >= 5
      /\ toUpperCase(SubSeq(line, p - 3, p - 1)) = <<SP, "A", "S">>
      /\ ~IsWhitespace(line[p - 4])

\* position of the first character of the alias part
aliasPartStart(line) ==
  IF hasAsKeyword(line) THEN aliasSpace(line) - 2 ELSE aliasSpace(line) + 1

\* the text before the space that separates the expression from the alias part
expressionText(line) ==
  IF aliasSpace(line) = 0 THEN line
  ELSE SubSeq(line, 1, aliasPartStart(line) - 2)

\* the last word of the line is an alias in the sense of SQL: a name that
\* follows AS, or a name that follows an operand (not an operator)
namesColumn(line) ==
  LET p == aliasSpace(line)
  IN  /\ p > 0
      /\ \/ hasAsKeyword(line)
         \/ /\ IsWordChar(line[p - 1]) \/ line[p - 1] \in {")", "'"}
            /\ IsLower(line[p + 1]) \/ IsUpper(line[p + 1])

\* whether the line carries an alias: its last word whatever it is, or, read
\* as SQL, its last word when that names the column
carriesAlias(line, asSql) ==
  IF asSql THEN namesColumn(line) ELSE aliasSpace(line) > 0

expressionWidth(line, asSql) ==
  IF carriesAlias(line, asSql)
  THEN Len(dropTrailingComma(expressionText(line)))
  ELSE Len(dropTrailingComma(line))

\* the lines from `from` to the first that does not end with a comma
RECURSIVE runLast(_, _)
runLast(lines, from) ==
  IF from >= Len(lines) \/ ~endsWithComma(lines[from]) THEN from
  ELSE runLast(lines, from + 1)

\* the first line of the run a SELECT line opens, 0 when it opens none: the
\* SELECT line itself when it carries the first item, else the line after it
runFirst(lines, k) ==
  IF ~startsWithSelect(lines[k]) THEN 0
  ELSE IF endsWithComma(lines[k]) THEN k
  ELSE IF selectWithText(lines[k]) \/ k = Len(lines) THEN 0
  ELSE k + 1

runWidth(lines, first, asSql) ==
  LET widths == {expressionWidth(lines[j], asSql) : j \in first..runLast(lines, first)}
  IN  CHOOSE w \in widths : \A v \in widths : v <= w

\* the lines of the first SELECT-clause run of the text
firstRun ==
  LET opens == {k \in 1..Len(linesBefore) : runFirst(linesBefore, k) > 0}
  IN  IF opens = {} THEN {}
      ELSE LET k == CHOOSE k \in opens : \A j \in opens : k <= j
               first == runFirst(linesBefore, k)
           IN  first..runLast(linesBefore, first)

\* in a run of SELECT-clause lines every line that carries an alias is given
\* back with its alias part starting one column past the widest expression of
\* the run, every other line unchanged
aliasLayout(asSql) ==
  (pc = "done" /\ cfg.tabulateAlias) =>
    \A j \in firstRun :
      LET line == linesBefore[j]
          width == runWidth(linesBefore,
                            CHOOSE f \in firstRun : \A g \in firstRun : f <= g, asSql)
      IN  IF ~carriesAlias(line, asSql) THEN linesAligned[j] = line
          ELSE linesAligned[j] =
                 expressionText(line)
                   \o repeat(<<SP>>, width + 1 - Len(expressionText(line)))
                   \o SubSeq(line, aliasPartStart(line), Len(line))

commaInput ==
  IF cfg.tabulateAlias THEN formatAliasPositions(formattedQuery).text
  ELSE formattedQuery
linesOfCommaInput == split(commaInput, <<>>)
linesRepositioned == split(formatCommaPositions(commaInput, cfg).text, <<>>)

\* the lines of the comma-bound runs a scan from line k finds: a run is the
\* lines that end with a comma and the line that follows the last of them; the
\* line after a run is passed over, the scan goes on behind it
RECURSIVE commaRuns(_, _)
commaRuns(lines, k) ==
  IF k > Len(lines) THEN {}
  ELSE IF ~endsWithComma(lines[k]) THEN commaRuns(lines, k + 1)
  ELSE (k..runLast(lines, k)) \cup commaRuns(lines, runLast(lines, k) + 2)

\* the lines of the SELECT-clause runs a scan from line k finds: a run is the
\* lines a SELECT line opens, to the first line that does not end with a comma
RECURSIVE selectRuns(_, _)
selectRuns(lines, k) ==
  IF k > Len(lines) THEN {}
  ELSE IF runFirst(lines, k) = 0 THEN selectRuns(lines, k + 1)
  ELSE LET first == runFirst(lines, k)
       IN  (first..runLast(lines, first)) \cup selectRuns(lines, runLast(lines, first) + 2)

\* a pass gives back, in place, every line outside its runs, and as many
\* lines as it was given; when `padded`, one empty line more after a run that
\* ends at the last line
frameOf(lines, out, runs, padded) ==
  /\ IF padded /\ Len(lines) \in runs
     THEN Len(out) = Len(lines) + 1 /\ out[Len(out)] = <<>>
     ELSE Len(out) = Len(lines)
  /\ \A k \in 1..Len(lines) :
       (k <= Len(out) /\ k \notin runs) => out[k] = lines[k]

framesHold(padded) ==
  pc = "done" =>
    /\ cfg.tabulateAlias
         => frameOf(linesBefore, linesAligned, selectRuns(linesBefore, 1), padded)
    /\ cfg.commaPosition # after
         => frameOf(linesOfCommaInput, linesRepositioned,
                    commaRuns(linesOfCommaInput, 1), padded)

\* C15 as stated: comma repositioning and alias alignment give back every
\* line outside the runs they process unchanged and in place, and add, drop
\* or repeat no line, also when a run ends at the last line of the text
C15_Original == framesHold(FALSE)

\* C15 amended: the same, except that a pass whose run ends at the last line
\* of the text appends one empty line to it
C15_PassFrame == framesHold(TRUE)

\* the commas of a two item SELECT clause were moved to the front of the next
\* line, the lines around the run are as they were
C15_Witness ==
  /\ pc = "done"
  /\ input = qSelectAB
  /\ cfg.commaPosition = before
  /\ commaRuns(linesOfCommaInput, 1) = {3, 4}
  /\ Len(linesOfCommaInput) = 6
  /\ contains(result, <<NL, ",", SP, "b", NL, "F", "R", "O", "M">>)

\* ------------------------------------------------------------------- C16
\* the top-level depth a command leaves: decreased (not below zero), and
\* increased again by one unless the command is one that `skips` the increase
followedByParen == tokenLookAhead(Formatter, 1).value = <<"(">>

commandStep(onlyFrom) ==
  (Stepping /\ current.type = RESERVED_COMMAND) =>
    LET base == IF topLevel > 0 THEN topLevel - 1 ELSE 0
        skips == /\ followedByParen
                 /\ (onlyFrom /\ ~tenSpace(cfg)) => isFROM(current)
    IN  topLevel' = IF skips THEN base ELSE base + 1

\* C16 as stated: every command followed by `(` leaves the top-level depth not
\* increased, in standard and in ten-space mode, whatever the command
C16_Original == [][commandStep(FALSE)]_vars

\* C16: a command followed by `(` leaves the top-level depth not increased in
\* ten-space mode, and in standard mode when the command is FROM; every other
\* command increases it by one after its decrease
C16_CommandBeforeParen == [][commandStep(TRUE)]_vars

\* FROM of `select a from (select b from t)` was handled in standard mode: the
\* depth SELECT had raised to one is back at zero and the subquery's `(` is next
C16_Witness ==
  /\ pc = "format"
  /\ ~tenSpace(cfg)
  /\ index > 0 /\ index < Len(tokens)
  /\ isFROM(tokens[index])
  /\ tokens[index + 1].value = <<"(">>
  /\ topLevel = 0
  /\ \E i \in 1..(index - 1) : isSELECT(tokens[i])

\* ------------------------------------------------------------------- C17
\* C17: at a command token the span checkNewline examines is the tokens after
\* it up to the next command, binary command or `;`, and all the tokens that
\* remain, the last one included, when none of these follows
C17_ClauseSpan ==
  (Stepping /\ current.type = RESERVED_COMMAND) =>
    nextTokens(tokens, index) = SubSeq(tokens, index + 2, clauseEnd(index))

\* ------------------------------------------------------------------- C18
\* the commas of a span that lie outside every parenthesis of the span
RECURSIVE commasAtDepthZero(_, _)
commasAtDepthZero(span, depth) ==
  IF Len(span) = 0 THEN 0
  ELSE LET t == Head(span)
       IN  IF t.type = BLOCK_START THEN commasAtDepthZero(Tail(span), depth + 1)
           ELSE IF t.type = BLOCK_END
           THEN commasAtDepthZero(Tail(span), IF depth > 0 THEN depth - 1 ELSE 0)
           ELSE (IF t.value = <<",">> /\ depth = 0 THEN 1 ELSE 0)
                  + commasAtDepthZero(Tail(span), depth)

\* C18: where the item count decides, the count of a clause span is one more
\* than the number of its commas at parenthesis depth zero
C18_ItemCount ==
  (Stepping /\ current.type = RESERVED_COMMAND /\ cfg.newline = itemCount) =>
    countItems(nextTokens(tokens, index), 1, FALSE)
      = 1 + commasAtDepthZero(nextTokens(tokens, index), 0)

\* ------------------------------------------------------------------- C19
\* one turn of the loop as the inline block sees it: activation at a
\* parenthesis only, with its matching end recorded; no change before that end;
\* at a nested end and at the matching end the text goes on inline and the
\* block depth stays; the matching end clears the record
inlineStep ==
  Stepping =>
    /\ (~isActive(Formatter) /\ inlineBlock' # NoInline)
         => /\ current.type = BLOCK_START
            /\ ~isCASE(current)
            /\ inlineBlock' = [startIndex |-> index,
                               endIndex |-> matchingBlockEnd(tokens, index, 0)]
    /\ isActive(Formatter)
         => /\ inlineBlock.startIndex < index
            /\ index <= inlineBlock.endIndex
            /\ inlineBlock' = IF index = inlineBlock.endIndex THEN NoInline ELSE inlineBlock
            /\ current.type \in {BLOCK_START, BLOCK_END}
                 => /\ blockLevel' = blockLevel
                    /\ ~hasNewline(Delta(query, query'))

C20_TokensUnchanged ==
  pc = "done" =>
    /\ Len(tokens) = Len(input)
    /\ \A i \in 1..Len(tokens) :
         /\ tokens[i].value = input[i].value
         /\ tokens[i].type = input[i].type

\* ------------------------------------------------------------------- C21
commasOf(text) == Cardinality({i \in 1..Len(text) : text[i] = ","})

\* C21: with commaPosition `before` every line that ended with a comma is
\* given back without it and the line after it with the comma in front of its
\* text; the text keeps its number of commas and no line ends with one
C21_CommasBefore ==
  (pc = "done" /\ cfg.commaPosition = before) =>
    /\ commasOf(join(linesRepositioned)) = commasOf(commaInput)
    /\ \A k \in 1..Len(linesRepositioned) : ~endsWithComma(linesRepositioned[k])
    /\ \A k \in 1..(Len(linesOfCommaInput) - 1) :
         (endsWithComma(linesOfCommaInput[k]) /\ k + 1 <= Len(linesRepositioned))
           => /\ nonBlank(linesRepositioned[k]) \in
                   { nonBlank(dropTrailingComma(linesOfCommaInput[k])),
                     <<",">> \o nonBlank(dropTrailingComma(linesOfCommaInput[k])) }
              /\ nonBlank(linesRepositioned[k + 1])
                   = <<",">> \o nonBlank(dropTrailingComma(linesOfCommaInput[k + 1]))


\* ------------------------------------------------------------------- C22
\* C22: when a word, number or string is the next token after a logical
\* operator, the text the operator's turn leaves ends with a space or a line
\* break (with its indentation), so that the two are not written as one word
C22_OperatorNotFused ==
  ( /\ pc = "format"
    /\ index > 0 /\ index < Len(tokens)
    /\ tokens[index].type = RESERVED_LOGICAL_OPERATOR
    /\ tokens[index + 1].type \in {WORD, NUMBER, STRING_TOKEN} )
    => /\ Len(query) > 0
       /\ query[Len(query)] \in {SP, TAB, NL}

\* ------------------------------------------------------------------- C23
\* the Formatter as it is before token j of the first call is handled
RECURSIVE replay(_)
replay(j) ==
  IF j = 0 THEN beginFormat(constructed, input) ELSE loopStep(replay(j - 1), cfg)

\* index of the BLOCK_START matching the BLOCK_END at i, -1 when there is none
RECURSIVE matchingBlockStart(_, _, _)
matchingBlockStart(toks, i, level) ==
  IF i < 0 THEN -1
  ELSE LET t == toks[i + 1]
           l == IF t.type = BLOCK_END THEN level + 1
                ELSE IF t.type = BLOCK_START THEN level - 1 ELSE level
       IN  IF l = 0 THEN i ELSE matchingBlockStart(toks, i - 1, l)

wellNested(toks) ==
  \A i \in 0..(Len(toks) - 1) :
    /\ toks[i + 1].type = BLOCK_START => matchingBlockEnd(toks, i, 0) >= 0
    /\ toks[i + 1].type = BLOCK_END => matchingBlockStart(toks, i, 0) >= 0

separatorInBlock(toks) ==
  \E i \in 0..(Len(toks) - 1) :
    /\ toks[i + 1].type = BLOCK_START
    /\ \E k \in i..matchingBlockEnd(toks, i, 0) : toks[k + 1].value = <<";">>

balanced(anySeparator) ==
  (calls = 1 /\ wellNested(input) /\ (anySeparator \/ ~separatorInBlock(input))) =>
    /\ (pc = "format" /\ index > 0 /\ tokens[index].type = BLOCK_END)
         => blockLevel = replay(matchingBlockStart(input, index - 1, 0)).block
    /\ index = Len(tokens) => blockLevel = 0

\* C23 as stated: on every token sequence with properly nested blocks the
\* block depth after a BLOCK_END is the depth before its BLOCK_START, and the
\* depth is zero at the end
C23_Original == balanced(TRUE)

\* C23: the same on the properly nested sequences that have no `;` between a
\* BLOCK_START and its BLOCK_END
C23_BlockDepthBalanced == balanced(FALSE)

\* the `)` of the subquery in `select a from (select Bb from t)` was handled:
\* the depth the `(` had raised to one is zero again
C23_Witness ==
  /\ pc = "format"
  /\ calls = 1
  /\ input = qSubquery
  /\ index = Len(tokens)
  /\ tokens[index].type = BLOCK_END
  /\ replay(index - 1).block = 1
  /\ replay(matchingBlockStart(input, index - 1, 0)).block = 0
  /\ blockLevel = 0

\* ------------------------------------------------------------------- C24
\* what the turn of a token may add to the text, white space and padding left
\* out: a placeholder its replacement, an AS keyword itself or nothing, any
\* other reserved or block token itself in the configured case, a word itself
\* or itself after an inserted AS, every other token itself
pieces(t) ==
  IF t.type = PLACEHOLDER THEN {nonBlank(paramsGet(t, cfg))}
  ELSE IF isAS(t) THEN {<<>>, cased(nonBlank(t.value))}
  ELSE IF isReserved(t) \/ t.type \in {BLOCK_START, BLOCK_END}
  THEN {cased(nonBlank(t.value))}
  ELSE IF t.type = WORD
  THEN {nonBlank(t.value), cased(<<"a","s">>) \o nonBlank(t.value)}
  ELSE {nonBlank(t.value)}

\* C24: every turn of the loop keeps the text written so far, up to white
\* space, and adds the text of its token behind it, once; the only text that
\* is added besides is the AS of alias insertion, the only text left out an
\* AS keyword; the text the pass returns is the text the last turn left
C24_TokensKept ==
  /\ [][Stepping => nonBlank(query') \in {nonBlank(query) \o piece :
                                            piece \in pieces(input[index + 1])}]_vars
  /\ [](pc = "done" => nonBlank(formattedQuery) = nonBlank(query))

\* `select case a end Bb, a from t`: the text returned is the tokens in their
\* order, the keywords in upper case and an AS put in before the alias
C24_Witness ==
  /\ pc = "done"
  /\ input = qCase
  /\ cfg = DefaultCfg
  /\ nonBlank(formattedQuery)
       = <<"S","E","L","E","C","T","C","A","S","E","a","E","N","D",
           "A","S","B","b",",","a","F","R","O","M","t">>

\* ------------------------------------------------------------------- C25
\* the turn of a `;` leaves both depths at zero and, when `whole`, every other
\* part of the layout state as the constructor set it
separatorStep(whole) ==
  (Stepping /\ current.value = <<";">>) =>
    /\ topLevel' = 0
    /\ blockLevel' = 0
    /\ whole => /\ inlineBlock' = NoInline
                /\ currentNewline' = constructed.currentNewline
                /\ withinSelect' = constructed.withinSelect
                /\ previousReservedToken' = constructed.previousReservedToken

\* the text of the tokens after the `;` at index s as the first call wrote it
\* behind the text of that `;`, and the text of these tokens formatted alone
textAfter(s) == Delta(replay(s + 1).query, query)
textAlone(s) ==
  runLoop(beginFormat(constructed, SubSeq(input, s + 2, Len(input))), cfg).query

\* behind every `;` the text is the one its tokens get alone and the text up
\* to the `;` is kept (the line break that opens a text is not repeated behind
\* those of the `;`); when `fromCommand`, for the `;` a command follows
sameTextAfter(fromCommand) ==
  (pc = "done" /\ calls = 1) =>
    \A s \in 0..(Len(input) - 2) :
      ( /\ input[s + 1].value = <<";">>
        /\ fromCommand => input[s + 2].type = RESERVED_COMMAND )
        => query = replay(s + 1).query \o stripLeadingNewlines(textAlone(s))

\* C25 as stated: after a `;` the whole layout state is the initial one and
\* the tokens after it get the text they get alone, whatever came before
C25_Original == [][separatorStep(TRUE)]_vars /\ []sameTextAfter(FALSE)

\* C25: after a `;` both indentation depths are zero, the rest of the layout
\* state is kept until a command token sets it; a statement that starts with
\* a command gets, after a `;`, the text it gets alone, whatever came before
C25_StatementsApart == [][separatorStep(FALSE)]_vars /\ []sameTextAfter(TRUE)

\* `select a limit 1; select a, b` under the default options: the second
\* statement is laid out as it is alone, its comma followed by a line break
C25_Witness ==
  /\ pc = "done"
  /\ calls = 1
  /\ input = qLimitThen
  /\ cfg = DefaultCfg
  /\ textAfter(4) = stripLeadingNewlines(textAlone(4))
  /\ contains(query, <<"1", ";", NL, NL, "S","E","L","E","C","T", NL, SP, SP, "a", ",", NL, SP, SP, "b">>)

====
